---- MODULE Spec2Model ----
(***************************************************************************)
(* A model of QuestionManager (src/question_manager.py): the question      *)
(* store with its mtime-gated reload, the dispenser of unused questions,   *)
(* answer validation and the answer normalization routine.                 *)
(*                                                                         *)
(* A Python str is a sequence of characters; a character is a one-element  *)
(* token such as "a", " " or "-".  Tokens longer than one letter name      *)
(* characters that have no ASCII spelling: "TAB" is U+0009, "e_acute" is   *)
(* U+00E9, "E_acute" is U+00C9 and "comb_acute" is U+0301.                 *)
(*                                                                         *)
(* Four specifications share the definitions:                              *)
(*   Spec      two request threads interleave at the statements that       *)
(*             touch shared state, and the resource changes at any moment; *)
(*   SeqSpec   one caller at a time, the resource changing only between    *)
(*             calls, with a history of the dispenser's outcomes;          *)
(*   LoadSpec  one caller reloading resources made of every short line;    *)
(*   NormSpec  _normalize_answer applied once and twice to each input.     *)
(* Every write of the resource gives it a modification time larger than    *)
(* any before.                                                             *)
(***************************************************************************)
EXTENDS Naturals, Sequences, FiniteSets, TLC

VARIABLES
    file,        \* the backing resource: [exists, mtime, lines]
    clock,       \* the file system's clock: the last mtime it handed out
    questions,   \* self._questions
    id_map,      \* self._id_map
    mtime,       \* self._mtime
    used,        \* self._used
    pc,          \* per thread: where the thread is inside its call
    call,        \* per thread: the operation called and its arguments
    lmtime,      \* per thread: the local `mtime` of _reload_if_needed
    parsed,      \* per thread: the local `parsed` of _load_questions_internal
    chosen,      \* per thread: the local `chosen` of get_random_question
    result,      \* per thread: what the call returned or raised
    run,         \* history: outcomes of get_random_question since the last clear
    stable,      \* history: the resource did not change during the run
    exhausted,   \* history: the dispenser was exhausted before the last clear
    seq,         \* scenario: TRUE when one caller runs at a time
    s_in,        \* normalization harness: the input string
    s_out        \* normalization harness: the outputs computed from s_in

vars == <<file, clock, questions, id_map, mtime, used, pc, call, lmtime,
          parsed, chosen, result, run, stable, exhausted, seq, s_in, s_out>>

-----------------------------------------------------------------------------
(* Characters and strings *)

\* Python's None, where a str is expected
None == <<"None">>

LowerLetters ==
    <<"a","b","c","d","e","f","g","h","i","j","k","l","m",
      "n","o","p","q","r","s","t","u","v","w","x","y","z">>

UpperLetters ==
    <<"A","B","C","D","E","F","G","H","I","J","K","L","M",
      "N","O","P","Q","R","S","T","U","V","W","X","Y","Z">>

Digits == {"0","1","2","3","4","5","6","7","8","9"}

Range(f) == {f[i] : i \in DOMAIN f}

\* \s of re, and the characters str.strip() and str.split() treat as blank
IsSpace(c) == c \in {" ", "TAB"}

\* \w of re on a str pattern: letters, digits and the underscore
IsWordChar(c) ==
    c \in Range(LowerLetters) \cup Range(UpperLetters) \cup Digits
          \cup {"_", "e_acute", "E_acute"}

\* unicodedata.combining(ch) != 0
IsCombining(c) == c = "comb_acute"

\* unicodedata.normalize("NFKD", ch) of one character
NFKDChar(c) ==
    CASE c = "e_acute" -> <<"e", "comb_acute">>
      [] c = "E_acute" -> <<"E", "comb_acute">>
      [] OTHER         -> <<c>>

\* str.lower() of one character
LowerChar(c) ==
    IF \E i \in DOMAIN UpperLetters : UpperLetters[i] = c
    THEN LowerLetters[CHOOSE i \in DOMAIN UpperLetters : UpperLetters[i] = c]
    ELSE IF c = "E_acute" THEN "e_acute" ELSE c

\* unicodedata.normalize("NFKD", s)
RECURSIVE NFKD(_)
NFKD(s) ==
    IF s = <<>> THEN <<>> ELSE NFKDChar(Head(s)) \o NFKD(Tail(s))

\* "".join(ch for ch in s if not unicodedata.combining(ch))
StripCombining(s) == SelectSeq(s, LAMBDA c : ~IsCombining(c))

\* s.lower()
Lower(s) == [i \in DOMAIN s |-> LowerChar(s[i])]

\* str.strip()
RECURSIVE LStrip(_)
LStrip(s) ==
    IF s # <<>> /\ IsSpace(Head(s)) THEN LStrip(Tail(s)) ELSE s

RECURSIVE RStrip(_)
RStrip(s) ==
    IF s # <<>> /\ IsSpace(s[Len(s)]) THEN RStrip(SubSeq(s, 1, Len(s) - 1)) ELSE s

Strip(s) == RStrip(LStrip(s))

\* str.split(): the maximal runs of non-blank characters, in order
RECURSIVE SplitFrom(_, _)
SplitFrom(s, cur) ==
    IF s = <<>>
    THEN (IF cur = <<>> THEN <<>> ELSE <<cur>>)
    ELSE IF IsSpace(Head(s))
         THEN (IF cur = <<>> THEN <<>> ELSE <<cur>>) \o SplitFrom(Tail(s), <<>>)
         ELSE SplitFrom(Tail(s), Append(cur, Head(s)))

Split(s) == SplitFrom(s, <<>>)

-----------------------------------------------------------------------------
(* Answer normalization: QuestionManager._normalize_answer *)

NUMBER_WORDS ==
    << <<<<"z","e","r","o">>,             <<"0">>>>,
       <<<<"o","n","e">>,                 <<"1">>>>,
       <<<<"t","w","o">>,                 <<"2">>>>,
       <<<<"t","h","r","e","e">>,         <<"3">>>>,
       <<<<"f","o","u","r">>,             <<"4">>>>,
       <<<<"f","i","v","e">>,             <<"5">>>>,
       <<<<"s","i","x">>,                 <<"6">>>>,
       <<<<"s","e","v","e","n">>,         <<"7">>>>,
       <<<<"e","i","g","h","t">>,         <<"8">>>>,
       <<<<"n","i","n","e">>,             <<"9">>>>,
       <<<<"t","e","n">>,                 <<"1","0">>>>,
       <<<<"e","l","e","v","e","n">>,     <<"1","1">>>>,
       <<<<"t","w","e","l","v","e">>,     <<"1","2">>>> >>

\* \b at position i of s (between s[i-1] and s[i]): exactly one side is a
\* word character; the ends of the string count as non-word
IsBoundary(s, i) ==
    LET before == i > 1 /\ IsWordChar(s[i - 1])
        after  == i <= Len(s) /\ IsWordChar(s[i])
    IN  before # after

\* whether \bword\b matches s at position i
MatchesAt(word, s, i) ==
    /\ i + Len(word) - 1 <= Len(s)
    /\ SubSeq(s, i, i + Len(word) - 1) = word
    /\ IsBoundary(s, i)
    /\ IsBoundary(s, i + Len(word))

\* re.sub(rf"\b{word}\b", digit, s): leftmost non-overlapping matches
RECURSIVE ReSubFrom(_, _, _, _)
ReSubFrom(word, digit, s, i) ==
    IF i > Len(s) THEN <<>>
    ELSE IF MatchesAt(word, s, i)
         THEN digit \o ReSubFrom(word, digit, s, i + Len(word))
         ELSE <<s[i]>> \o ReSubFrom(word, digit, s, i + 1)

ReSubWord(word, digit, s) == ReSubFrom(word, digit, s, 1)

\* the loop over NUMBER_WORDS.items(), in insertion order
RECURSIVE ReplaceNumberWords(_, _)
ReplaceNumberWords(s, k) ==
    IF k > Len(NUMBER_WORDS) THEN s
    ELSE ReplaceNumberWords(
             ReSubWord(NUMBER_WORDS[k][1], NUMBER_WORDS[k][2], s), k + 1)

\* re.sub(r"[^0-9a-z\s]", "", s)
IsKept(c) == c \in Digits \/ c \in Range(LowerLetters) \/ IsSpace(c)

RemovePunctuation(s) == SelectSeq(s, IsKept)

\* re.sub(r"\s+", " ", s)
RECURSIVE CollapseWhitespace(_)
CollapseWhitespace(s) ==
    IF s = <<>> THEN <<>>
    ELSE IF IsSpace(Head(s))
         THEN <<" ">> \o CollapseWhitespace(LStrip(s))
         ELSE <<Head(s)>> \o CollapseWhitespace(Tail(s))

\* the accent folding and lowercasing of lines 77-79
FoldAndLower(s) == Lower(StripCombining(NFKD(s)))

\* a slip in the step order: whitespace collapsed before punctuation is removed
NormalizeCollapseFirst(s) ==
    IF s = None THEN <<>>
    ELSE RemovePunctuation(
             Strip(CollapseWhitespace(ReplaceNumberWords(FoldAndLower(s), 1))))

\* a slip in the step order: punctuation removed before number words are replaced
NormalizeStripFirst(s) ==
    IF s = None THEN <<>>
    ELSE Strip(CollapseWhitespace(
             ReplaceNumberWords(RemovePunctuation(FoldAndLower(s)), 1)))

normalize_answer(s) ==
    IF s = None THEN <<>>
    ELSE Strip(CollapseWhitespace(RemovePunctuation(
             ReplaceNumberWords(FoldAndLower(s), 1))))

-----------------------------------------------------------------------------
(* The backing resource: sample lines and sample file contents *)

LineParis == <<"x"," ","y","|","P","a","r","i","s">>
LineRome  == <<" ","x"," ","y"," ","|"," ","R","o","m","e">>
LineSeven == <<"q","|","s","e","v","e","n">>
LinePipes == <<"z"," ","|","a","|","b">>
LineBlank == <<" ">>
LineNoDelimiter == <<"x","y">>
LineNoQuestion  == <<" ","|","a">>
LineNoAnswer    == <<"q","|"," ">>

FileContents ==
    { <<LineParis, LineSeven>>,
      <<LineParis, LineBlank, LinePipes, LineRome>>,
      <<LineNoDelimiter, LineNoQuestion, LineNoAnswer, LineBlank>> }

\* the largest mtime the file system clock hands out
MaxClock == 2


Threads == {"t1", "t2"}

-----------------------------------------------------------------------------
(* Parsing: QuestionManager._compute_id and _load_questions_internal *)

\* hex(sha256(question_text.strip())): the digest is modelled as an injective
\* tag on the stripped text
compute_id(question_text) == <<"sha256">> \o Strip(question_text)

\* position of the first "|" of line, 0 when there is none
RECURSIVE FindPipe(_, _)
FindPipe(line, i) ==
    IF i > Len(line) THEN 0
    ELSE IF line[i] = "|" THEN i ELSE FindPipe(line, i + 1)

\* a slip: the line is split on its last "|", as with rsplit
ParseLineSplitLast(raw) ==
    LET line == Strip(raw)
        ps   == {i \in DOMAIN line : line[i] = "|"}
        p    == IF ps = {} THEN 0 ELSE CHOOSE i \in ps : \A j \in ps : j <= i
    IN  IF line = <<>> THEN <<>>
        ELSE IF p = 0 THEN <<>>
        ELSE LET question == Strip(SubSeq(line, 1, p - 1))
                 answer   == Strip(SubSeq(line, p + 1, Len(line)))
             IN  IF question # <<>> /\ answer # <<>>
                 THEN << [id |-> compute_id(question),
                          question |-> question,
                          answer |-> answer] >>
                 ELSE <<>>

\* the body of the loop over the lines of the file: the records one raw line adds
ParseLine(raw) ==
    LET line == Strip(raw)
        p    == FindPipe(line, 1)
    IN  IF line = <<>> THEN <<>>
        ELSE IF p = 0 THEN <<>>
        ELSE LET question == Strip(SubSeq(line, 1, p - 1))
                 answer   == Strip(SubSeq(line, p + 1, Len(line)))
             IN  IF question # <<>> /\ answer # <<>>
                 THEN << [id |-> compute_id(question),
                          question |-> question,
                          answer |-> answer] >>
                 ELSE <<>>

\* the list `parsed` built from the lines of the file
RECURSIVE ParseLines(_)
ParseLines(lines) ==
    IF lines = <<>> THEN <<>>
    ELSE ParseLine(Head(lines)) \o ParseLines(Tail(lines))

\* a slip: the first record of an id is kept, as with dict.setdefault
BuildIdMapFirstWins(recs) ==
    [i \in {recs[k].id : k \in DOMAIN recs} |->
        recs[CHOOSE k \in DOMAIN recs :
                /\ recs[k].id = i
                /\ \A j \in DOMAIN recs : recs[j].id = i => k <= j]]

\* id_map = {rec["id"]: rec for rec in parsed}: a later record replaces an earlier
BuildIdMap(recs) ==
    [i \in {recs[k].id : k \in DOMAIN recs} |->
        recs[CHOOSE k \in DOMAIN recs :
                /\ recs[k].id = i
                /\ \A j \in DOMAIN recs : recs[j].id = i => j <= k]]

IdsOf(recs) == {recs[k].id : k \in DOMAIN recs}

AllIds == UNION {IdsOf(ParseLines(c)) : c \in FileContents}

\* how many outcomes of get_random_question the history keeps: one more than
\* the largest number of distinct questions a file holds
MaxRun == 1 + CHOOSE n \in 0..Cardinality(AllIds) :
              /\ \E c \in FileContents : Cardinality(IdsOf(ParseLines(c))) = n
              /\ \A c \in FileContents : Cardinality(IdsOf(ParseLines(c))) <= n

\* the answers callers send to validate_answer
UserAnswers ==
    { None,
      <<" "," ","p","a","r","i","s"," ">>,
      <<"P","A","R","I","S","!">>,
      <<"p","a","r"," ","i","s">>,
      <<"r","o","m","e">> }

-----------------------------------------------------------------------------
(* Calls, results and the state after construction *)

NoResult == [status |-> "none", value |-> <<>>]
Returned(v) == [status |-> "ok", value |-> v]
Raised(exc, msg) == [status |-> exc, value |-> msg]

ResourceNotFound == Raised("FileNotFoundError", "Questions file not found")
EmptyStore == Raised("ValueError", "No questions found in file")
Exhausted == Raised("ValueError", "No more unused questions available")
UnknownQuestion == Raised("KeyError", "Invalid question id")

NoRecord == [id |-> <<>>, question |-> <<>>, answer |-> <<>>]

Op(name) == [op |-> name, question_id |-> <<>>, user_answer |-> <<>>]

\* the calls thread t can make.  With one caller at a time every answer is
\* tried; with many callers at once the first caller validates one answer and
\* the second caller dispenses and reloads
Calls(t) ==
    IF seq
    THEN {Op(n) : n \in {"get_random_question", "load_questions", "force_reload"}}
         \cup {[op |-> "validate_answer", question_id |-> i, user_answer |-> a] :
                  i \in AllIds, a \in UserAnswers}
    ELSE IF t = "t1"
    THEN {Op(n) : n \in {"get_random_question", "load_questions", "force_reload"}}
         \cup {[op |-> "validate_answer", question_id |-> i,
                user_answer |-> <<"P","A","R","I","S","!">>] : i \in AllIds}
    ELSE {Op(n) : n \in {"get_random_question", "force_reload"}}

\* the operations that begin with self._reload_if_needed(...)
Reloading ==
    {"get_random_question", "validate_answer", "load_questions", "force_reload"}

\* no thread is inside a call
Quiet == \A t \in Threads : pc[t] \in {"idle", "done"}

\* __init__: the forced initial load succeeded, so the resource exists and
\* holds at least one valid line; nothing is used and no thread has called yet
InitStore ==
    /\ \E c \in FileContents :
          /\ ParseLines(c) # <<>>
          /\ file = [exists |-> TRUE, mtime |-> 1, lines |-> c]
          /\ questions = ParseLines(c)
          /\ id_map = BuildIdMap(ParseLines(c))
    /\ clock = 1
    /\ mtime = 1
    /\ used = {}
    /\ pc = [t \in Threads |-> "idle"]
    /\ call = [t \in Threads |-> Op("none")]
    /\ lmtime = [t \in Threads |-> 0]
    /\ parsed = [t \in Threads |-> <<>>]
    /\ chosen = [t \in Threads |-> NoRecord]
    /\ result = [t \in Threads |-> NoResult]
    /\ run = <<>>
    /\ stable = TRUE
    /\ exhausted = FALSE

InitManager == InitStore /\ s_in = <<>> /\ s_out = <<>>

\* many callers at once, the resource changing at any moment
Init == InitManager /\ seq = FALSE

\* one caller at a time, the resource changing only between calls
SeqInit == InitManager /\ seq = TRUE

-----------------------------------------------------------------------------
(* Steps of a thread *)

Goto(t, label) ==
    /\ pc' = [pc EXCEPT ![t] = label]
    /\ UNCHANGED <<result, run>>

\* the call of thread t ends with res: its frame is dropped, and the history
\* records the outcome of a get_random_question
Finish(t, res) ==
    /\ pc' = [pc EXCEPT ![t] = "done"]
    /\ result' = [result EXCEPT ![t] = res]
    /\ lmtime' = [lmtime EXCEPT ![t] = 0]
    /\ parsed' = [parsed EXCEPT ![t] = <<>>]
    /\ chosen' = [chosen EXCEPT ![t] = NoRecord]
    /\ run' = IF seq /\ call[t].op = "get_random_question" /\ Len(run) < MaxRun
              THEN Append(run, res) ELSE run

\* the operation proper, entered when _reload_if_needed returns
BodyOf(op) ==
    CASE op = "get_random_question" -> "available"
      [] op = "validate_answer"     -> "lookup"
      [] op = "load_questions"      -> "read_all"
      [] OTHER                      -> "done"

Body(t) == BodyOf(call[t].op)

\* a thread that is not inside a call may begin one
Free(t) == pc[t] \in {"idle", "done"} /\ (seq => t = "t1")

\* a slip: when the resource is missing the check is skipped and the cached
\* questions are served
GetMtimeServeStale(t, c) ==
    /\ Free(t)
    /\ call' = [call EXCEPT ![t] = c]
    /\ lmtime' = [lmtime EXCEPT ![t] = IF file.exists THEN file.mtime ELSE mtime]
    /\ pc' = [pc EXCEPT ![t] = "check"]
    /\ result' = [result EXCEPT ![t] = NoResult]
    /\ UNCHANGED <<file, clock, questions, id_map, mtime, used, parsed, chosen,
                   run, stable, exhausted, seq, s_in, s_out>>

\* a caller invokes an operation that begins with _reload_if_needed, whose
\* first step is lines 136-139: mtime = os.path.getmtime(self.file_path)
GetMtime(t, c) ==
    /\ Free(t)
    /\ call' = [call EXCEPT ![t] = c]
    /\ IF file.exists
       THEN /\ lmtime' = [lmtime EXCEPT ![t] = file.mtime]
            /\ pc' = [pc EXCEPT ![t] = "check"]
            /\ result' = [result EXCEPT ![t] = NoResult]
            /\ UNCHANGED <<parsed, chosen, run>>
       ELSE /\ pc' = [pc EXCEPT ![t] = "done"]
            /\ result' = [result EXCEPT ![t] = ResourceNotFound]
            /\ run' = IF seq /\ c.op = "get_random_question" /\ Len(run) < MaxRun
                      THEN Append(run, ResourceNotFound) ELSE run
            /\ UNCHANGED <<lmtime, parsed, chosen>>
    /\ UNCHANGED <<file, clock, questions, id_map, mtime, used,
                   stable, exhausted, seq, s_in, s_out>>

\* a caller invokes one of the operations that begin with _reload_if_needed
Begin(t) == \E c \in Calls(t) : GetMtime(t, c)

\* a slip: on a reload no mtime difference is looked for
NeedsReloadForcedOnly(t) == call[t].op = "force_reload"

\* _reload_if_needed, line 141: if force or ... self._mtime != mtime
\* (self._mtime is never None once __init__ has returned)
NeedsReload(t) == call[t].op = "force_reload" \/ mtime # lmtime[t]

\* _reload_if_needed, line 141; a local that is not read again is dropped
\* from the thread's frame
CheckMtime(t) ==
    /\ pc[t] = "check"
    /\ IF NeedsReload(t)
       THEN Goto(t, "load") /\ UNCHANGED lmtime
       ELSE Goto(t, Body(t)) /\ lmtime' = [lmtime EXCEPT ![t] = 0]
    /\ UNCHANGED <<file, clock, questions, id_map, mtime, used, call,
                   parsed, chosen, stable, exhausted, seq, s_in, s_out>>

\* a slip: the timestamp is recorded before the file is parsed
LoadAfterSetMtime(t) ==
    /\ pc[t] = "load"
    /\ mtime' = lmtime[t]
    /\ IF ~file.exists
       THEN Finish(t, ResourceNotFound)
       ELSE IF ParseLines(file.lines) = <<>>
            THEN Finish(t, EmptyStore)
            ELSE /\ parsed' = [parsed EXCEPT ![t] = ParseLines(file.lines)]
                 /\ Goto(t, "set_questions")
                 /\ UNCHANGED <<lmtime, chosen>>
    /\ UNCHANGED <<file, clock, questions, id_map, used, call,
                   stable, exhausted, seq, s_in, s_out>>

\* _load_questions_internal, lines 104-126: the file is read and parsed
Load(t) ==
    /\ pc[t] = "load"
    /\ IF ~file.exists
       THEN Finish(t, ResourceNotFound)
       ELSE IF ParseLines(file.lines) = <<>>
            THEN Finish(t, EmptyStore)
            ELSE /\ parsed' = [parsed EXCEPT ![t] = ParseLines(file.lines)]
                 /\ Goto(t, "set_questions")
                 /\ UNCHANGED <<lmtime, chosen>>
    /\ UNCHANGED <<file, clock, questions, id_map, mtime, used, call,
                   stable, exhausted, seq, s_in, s_out>>

\* _load_questions_internal, line 131: self._questions = parsed
SetQuestions(t) ==
    /\ pc[t] = "set_questions"
    /\ questions' = parsed[t]
    /\ Goto(t, "set_id_map")
    /\ UNCHANGED <<file, clock, id_map, mtime, used, call, lmtime, parsed,
                   chosen, stable, exhausted, seq, s_in, s_out>>

\* a slip: a reload also forgets which questions were dispensed
SetIdMapResetsUsed(t) ==
    /\ pc[t] = "set_id_map"
    /\ id_map' = BuildIdMap(parsed[t])
    /\ used' = {}
    /\ parsed' = [parsed EXCEPT ![t] = <<>>]
    /\ Goto(t, "set_mtime")
    /\ UNCHANGED <<file, clock, questions, mtime, call, lmtime,
                   chosen, stable, exhausted, seq, s_in, s_out>>

\* _load_questions_internal, lines 129 and 132: self._id_map = id_map
SetIdMap(t) ==
    /\ pc[t] = "set_id_map"
    /\ id_map' = BuildIdMap(parsed[t])
    /\ parsed' = [parsed EXCEPT ![t] = <<>>]
    /\ Goto(t, "set_mtime")
    /\ UNCHANGED <<file, clock, questions, mtime, used, call, lmtime,
                   chosen, stable, exhausted, seq, s_in, s_out>>

\* _reload_if_needed, line 144: self._mtime = mtime; force_reload (line 153)
\* returns right after it
SetMtime(t) ==
    /\ pc[t] = "set_mtime"
    /\ mtime' = lmtime[t]
    /\ IF call[t].op = "force_reload"
       THEN Finish(t, Returned(None))
       ELSE /\ Goto(t, Body(t))
            /\ lmtime' = [lmtime EXCEPT ![t] = 0]
            /\ UNCHANGED <<parsed, chosen>>
    /\ UNCHANGED <<file, clock, questions, id_map, used, call,
                   stable, exhausted, seq, s_in, s_out>>

-----------------------------------------------------------------------------
(* The dispenser and the grader *)

\* a slip: the used set is not consulted
AvailableIgnoringUsed == questions

\* get_random_question, line 164: the records whose id is not in self._used
AvailableRecords == SelectSeq(questions, LAMBDA rec : rec.id \notin used)

\* a slip: the stored record itself is handed out, answer included
QuestionDictWithAnswer(rec) ==
    [id |-> rec.id, question |-> rec.question, words |-> Split(rec.question),
     answer |-> rec.answer]

\* get_random_question, lines 174-175: the dict returned for the chosen record
QuestionDict(rec) ==
    [id |-> rec.id, question |-> rec.question, words |-> Split(rec.question)]

\* get_random_question, lines 164-168: available is computed and one is chosen
Available(t) ==
    /\ pc[t] = "available"
    /\ IF AvailableRecords = <<>>
       THEN Finish(t, Exhausted)
       ELSE /\ \E k \in DOMAIN AvailableRecords :
                  chosen' = [chosen EXCEPT ![t] = AvailableRecords[k]]
            /\ Goto(t, "add")
            /\ UNCHANGED <<lmtime, parsed>>
    /\ UNCHANGED <<file, clock, questions, id_map, mtime, used, call,
                   stable, exhausted, seq, s_in, s_out>>

\* get_random_question, lines 171-175: the id is added under the lock and the
\* dict is returned
AddUsed(t) ==
    /\ pc[t] = "add"
    /\ used' = used \cup {chosen[t].id}
    /\ Finish(t, Returned(QuestionDict(chosen[t])))
    /\ UNCHANGED <<file, clock, questions, id_map, mtime, call,
                   stable, exhausted, seq, s_in, s_out>>

\* a slip: the raw strings are compared
GradeRaw(correct_answer, user_answer) ==
    IF user_answer = None THEN FALSE ELSE correct_answer = user_answer

\* validate_answer, lines 190-196
Grade(correct_answer, user_answer) ==
    IF user_answer = None THEN FALSE
    ELSE normalize_answer(correct_answer) = normalize_answer(user_answer)

\* a slip: the absent answer is looked at before the id is resolved
LookupAnswerFirst(t) ==
    /\ pc[t] = "lookup"
    /\ IF call[t].user_answer = None
       THEN Finish(t, Returned(FALSE))
       ELSE IF call[t].question_id \notin DOMAIN id_map
            THEN Finish(t, UnknownQuestion)
            ELSE Finish(t, Returned(Grade(id_map[call[t].question_id].answer,
                                          call[t].user_answer)))
    /\ UNCHANGED <<file, clock, questions, id_map, mtime, used, call,
                   stable, exhausted, seq, s_in, s_out>>

\* validate_answer, lines 185-196
Lookup(t) ==
    /\ pc[t] = "lookup"
    /\ IF call[t].question_id \notin DOMAIN id_map
       THEN Finish(t, UnknownQuestion)
       ELSE Finish(t, Returned(Grade(id_map[call[t].question_id].answer,
                                     call[t].user_answer)))
    /\ UNCHANGED <<file, clock, questions, id_map, mtime, used, call,
                   stable, exhausted, seq, s_in, s_out>>

\* load_questions, line 149
ReadAll(t) ==
    /\ pc[t] = "read_all"
    /\ Finish(t, Returned([i \in DOMAIN questions |->
                              <<questions[i].question, questions[i].answer>>]))
    /\ UNCHANGED <<file, clock, questions, id_map, mtime, used, call,
                   stable, exhausted, seq, s_in, s_out>>

\* a slip: the used set is left as it is
UsedAfterClearKept == used

\* clear_cache, line 201: self._used.clear()
UsedAfterClear == {}

\* clear_cache, lines 198-201; a new run of the history begins
ClearCache(t) ==
    /\ Free(t)
    /\ call' = [call EXCEPT ![t] = Op("clear_cache")]
    /\ used' = UsedAfterClear
    /\ pc' = [pc EXCEPT ![t] = "done"]
    /\ result' = [result EXCEPT ![t] = Returned(None)]
    /\ run' = <<>>
    /\ stable' = TRUE
    /\ exhausted' = (seq /\ \E i \in DOMAIN run : run[i] = Exhausted)
    /\ UNCHANGED <<file, clock, questions, id_map, mtime, lmtime, parsed,
                   chosen, seq, s_in, s_out>>

\* get_cache_size, lines 203-206
GetCacheSize(t) ==
    /\ Free(t)
    /\ call' = [call EXCEPT ![t] = Op("get_cache_size")]
    /\ pc' = [pc EXCEPT ![t] = "done"]
    /\ result' = [result EXCEPT ![t] = Returned(Cardinality(used))]
    /\ UNCHANGED <<file, clock, questions, id_map, mtime, used, lmtime, parsed,
                   chosen, run, stable, exhausted, seq, s_in, s_out>>

-----------------------------------------------------------------------------
(* The HTTP boundary: app.py *)

\* a slip: no handler for ValueError, which then falls to the generic one
api_get_questionNoValueError(res) ==
    CASE res.status = "ok" ->
             [code |-> 200, body |-> res.value]
      [] res.status = "FileNotFoundError" ->
             [code |-> 500, body |-> [error |-> res.value]]
      [] OTHER ->
             [code |-> 500,
              body |-> [error |-> "Internal server error", detail |-> res.value]]

\* api_get_question: the response made from the outcome of get_random_question
api_get_question(res) ==
    CASE res.status = "ok" ->
             [code |-> 200, body |-> res.value]
      [] res.status = "FileNotFoundError" ->
             [code |-> 500, body |-> [error |-> res.value]]
      [] res.status = "ValueError" ->
             [code |-> 404, body |-> [error |-> res.value]]
      [] OTHER ->
             [code |-> 500,
              body |-> [error |-> "Internal server error", detail |-> res.value]]

-----------------------------------------------------------------------------
(* The environment: the resource is rewritten or removed *)

\* the file is written: its modification time moves forward
WriteFile(c) ==
    /\ clock < MaxClock
    /\ seq => Quiet
    /\ clock' = clock + 1
    /\ file' = [exists |-> TRUE, mtime |-> clock + 1, lines |-> c]
    /\ stable' = IF seq /\ run # <<>> THEN FALSE ELSE stable
    /\ UNCHANGED <<questions, id_map, mtime, used, pc, call, lmtime, parsed,
                   chosen, result, run, exhausted, seq, s_in, s_out>>

\* the file is removed
DeleteFile ==
    /\ file.exists
    /\ seq => Quiet
    /\ file' = [exists |-> FALSE, mtime |-> 0, lines |-> <<>>]
    /\ stable' = IF seq /\ run # <<>> THEN FALSE ELSE stable
    /\ UNCHANGED <<clock, questions, id_map, mtime, used, pc, call, lmtime,
                   parsed, chosen, result, run, exhausted, seq, s_in, s_out>>

Next ==
    \/ \E t \in Threads : Begin(t)
    \/ \E t \in Threads : CheckMtime(t)
    \/ \E t \in Threads : Load(t)
    \/ \E t \in Threads : SetQuestions(t)
    \/ \E t \in Threads : SetIdMap(t)
    \/ \E t \in Threads : SetMtime(t)
    \/ \E t \in Threads : Available(t)
    \/ \E t \in Threads : AddUsed(t)
    \/ \E t \in Threads : Lookup(t)
    \/ \E t \in Threads : ReadAll(t)
    \/ \E t \in Threads : ClearCache(t)
    \/ \E t \in Threads : GetCacheSize(t)
    \/ \E c \in FileContents : WriteFile(c)
    \/ DeleteFile

Spec == Init /\ [][Next]_vars

SeqSpec == SeqInit /\ [][Next]_vars

-----------------------------------------------------------------------------
(* Claims about the store and the dispenser *)

\* the records the resource holds now, and its distinct question ids
FileRecords == ParseLines(file.lines)
FileDistinct == Cardinality(IdsOf(FileRecords))

\* thread t takes a step that ends its call
Finishes(t) == pc[t] \notin {"idle", "done"} /\ pc'[t] = "done"

\* the run of get_random_question calls since construction or the last clear
\* was made on the resource as it is now, and that resource holds a record
RunOnResource == stable /\ file.exists /\ FileRecords # <<>>

\* C1: under concurrent callers "compute available, choose, insert" is atomic:
\* a caller that is about to insert its chosen id and return the question
\* finds that no other caller has dispensed that id in the meantime
C1_DispenseIsAtomic ==
    \A t \in Threads : pc[t] = "add" => chosen[t].id \notin used

\* C2, as stated: with N valid lines in the unchanged resource, the first N
\* sequential calls of a run succeed with pairwise distinct ids and call N+1
\* fails with Exhausted
C2_WithoutReplacementPerLine ==
    RunOnResource =>
        \A i \in DOMAIN run :
            /\ i <= Len(FileRecords) => run[i].status = "ok"
            /\ i = Len(FileRecords) + 1 => run[i] = Exhausted
            /\ \A j \in DOMAIN run :
                   (i < j /\ run[i].status = "ok" /\ run[j].status = "ok")
                       => run[i].value.id # run[j].value.id

\* C2, amended: with D distinct question ids among the valid lines of the
\* unchanged resource, the first D sequential calls of a run succeed with
\* pairwise distinct ids and call D+1 fails with Exhausted
C2_WithoutReplacementPerId ==
    RunOnResource =>
        \A i \in DOMAIN run :
            /\ i <= FileDistinct => run[i].status = "ok"
            /\ i > FileDistinct => run[i] = Exhausted
            /\ \A j \in DOMAIN run :
                   (i < j /\ run[i].status = "ok" /\ run[j].status = "ok")
                       => run[i].value.id # run[j].value.id

\* a run on a resource with two distinct questions went through both of them
\* and was then refused
C2_Witness ==
    /\ RunOnResource
    /\ FileDistinct = 2
    /\ Len(run) = 3
    /\ run[1].status = "ok" /\ run[2].status = "ok"
    /\ run[3] = Exhausted

\* C3: a successful get_random_question returns exactly id, question and
\* words, words being the whitespace-split question; the answer is no field of
\* it, nor of the body api_get_question sends
C3_NoAnswerLeak ==
    \A t \in Threads :
        (pc[t] = "done" /\ call[t].op = "get_random_question"
                        /\ result[t].status = "ok")
        => LET v == result[t].value
               body == api_get_question(result[t]).body
           IN  /\ DOMAIN v = {"id", "question", "words"}
               /\ v.id = compute_id(v.question)
               /\ v.words = Split(v.question)
               /\ DOMAIN body = {"id", "question", "words"}
               /\ body = v

\* a question of two words has been dispensed
C3_Witness ==
    \E t \in Threads :
        /\ pc[t] = "done"
        /\ call[t].op = "get_random_question"
        /\ result[t].status = "ok"
        /\ Len(result[t].value.words) = 2

\* C4: whenever a caller is about to read the sequence or the mapping, the
\* mapping is the one derived from the current sequence
C4_ReadersSeeDerivedMapping ==
    (\E t \in Threads : pc[t] \in {"available", "lookup", "read_all"})
        => id_map = BuildIdMap(questions)

\* C5, as stated: a validate with the id of a dispensed question that is not
\* among the questions of the resource as it is now, the resource not changing
\* during the call, fails with UnknownQuestion
C5_StaleIdIsUnknown ==
    [][\A t \in Threads :
          (/\ seq
           /\ Finishes(t)
           /\ call[t].op = "validate_answer"
           /\ call[t].question_id \in used
           /\ file.exists
           /\ call[t].question_id \notin IdsOf(FileRecords))
          => result'[t] = UnknownQuestion]_vars

\* C5, amended: such a validate never returns a grade: it fails with
\* UnknownQuestion, the store then being the parse of the resource, when the
\* resource holds a valid line, and with EmptyStore when it holds none
C5_StaleIdIsNeverGraded ==
    [][\A t \in Threads :
          (/\ seq
           /\ Finishes(t)
           /\ call[t].op = "validate_answer"
           /\ call[t].question_id \in used
           /\ file.exists
           /\ call[t].question_id \notin IdsOf(FileRecords))
          => IF FileRecords = <<>>
             THEN result'[t] = EmptyStore
             ELSE /\ result'[t] = UnknownQuestion
                  /\ questions' = FileRecords
                  /\ id_map' = BuildIdMap(FileRecords)
                  /\ mtime' = file.mtime]_vars

\* a dispensed question, gone from the rewritten resource, was refused
C5_Witness ==
    /\ seq
    /\ pc["t1"] = "done"
    /\ call["t1"].op = "validate_answer"
    /\ call["t1"].question_id \in used
    /\ file.exists
    /\ FileRecords # <<>>
    /\ call["t1"].question_id \notin IdsOf(FileRecords)
    /\ result["t1"] = UnknownQuestion

\* thread t begins a call of a reloading operation: its first step is the check
BeginsReloading(t) ==
    /\ pc[t] \in {"idle", "done"}
    /\ <<pc[t], call[t], result[t]>>' # <<pc[t], call[t], result[t]>>
    /\ call'[t].op \in Reloading

\* C6: a reloading operation whose check finds the resource missing fails with
\* ResourceNotFound at once and leaves the used set alone, cached questions or not
C6_MissingResourceFails ==
    [][\A t \in Threads :
          (BeginsReloading(t) /\ ~file.exists)
          => /\ pc'[t] = "done"
             /\ result'[t] = ResourceNotFound
             /\ used' = used]_vars

\* get_random_question failed on a missing resource with questions still
\* cached and unused
C6_Witness ==
    \E t \in Threads :
        /\ pc[t] = "done"
        /\ call[t].op = "get_random_question"
        /\ result[t] = ResourceNotFound
        /\ ~file.exists
        /\ AvailableRecords # <<>>

\* C7, as stated: a dispenser that was exhausted before the clear again
\* succeeds N times, N the number of records in the store
C7_ClearRestoresEveryLine ==
    (exhausted /\ RunOnResource) =>
        \A i \in DOMAIN run : i <= Len(FileRecords) => run[i].status = "ok"

\* C7, amended: after clear() the used set is empty and get_cache_size returns
\* 0 until a question is dispensed; a dispenser that was exhausted before the
\* clear again succeeds once per distinct question before it is exhausted again
C7_ClearResets ==
    /\ \A t \in Threads :
          (seq /\ pc[t] = "done" /\ call[t].op = "clear_cache") => used = {}
    /\ \A t \in Threads :
          (seq /\ pc[t] = "done" /\ call[t].op = "get_cache_size" /\ run = <<>>)
              => result[t].value = 0
    /\ (exhausted /\ RunOnResource) =>
          \A i \in DOMAIN run :
              /\ i <= FileDistinct => run[i].status = "ok"
              /\ i > FileDistinct => run[i] = Exhausted

\* an exhausted dispenser was cleared, dispensed both questions again and was
\* exhausted again
C7_Witness ==
    /\ exhausted
    /\ RunOnResource
    /\ FileDistinct = 2
    /\ Len(run) = 3
    /\ run[2].status = "ok"
    /\ run[3] = Exhausted

Paris == <<"P","a","r","i","s">>

\* C10: for a known id and a given answer, validate returns whether the two
\* normalized strings are equal; stored "Paris" accepts "  paris " and
\* "PARIS!" and rejects "par is"
C10_ValidateComparesNormalized ==
    \A t \in Threads :
        (/\ seq
         /\ pc[t] = "done"
         /\ call[t].op = "validate_answer"
         /\ result[t].status = "ok"
         /\ call[t].user_answer # None)
        => LET stored == id_map[call[t].question_id].answer
               given  == call[t].user_answer
           IN  /\ result[t].value
                     = (normalize_answer(stored) = normalize_answer(given))
               /\ (stored = Paris /\ given = <<" "," ","p","a","r","i","s"," ">>)
                     => result[t].value = TRUE
               /\ (stored = Paris /\ given = <<"P","A","R","I","S","!">>)
                     => result[t].value = TRUE
               /\ (stored = Paris /\ given = <<"p","a","r"," ","i","s">>)
                     => result[t].value = FALSE

\* "PARIS!" was accepted for the stored answer "Paris"
C10_Witness ==
    /\ seq
    /\ pc["t1"] = "done"
    /\ call["t1"].op = "validate_answer"
    /\ call["t1"].user_answer = <<"P","A","R","I","S","!">>
    /\ call["t1"].question_id \in DOMAIN id_map
    /\ id_map[call["t1"].question_id].answer = Paris
    /\ result["t1"] = Returned(TRUE)

\* the response api_get_question sends for the finished call of thread t
Response(t) == api_get_question(result[t])

\* thread t has finished a get_random_question with outcome res
Dispensed(t, res) ==
    pc[t] = "done" /\ call[t].op = "get_random_question" /\ result[t] = res

\* C11, as stated: at the HTTP boundary EmptyStore from get_random_question
\* gets a server-fault response (5xx), as ResourceNotFound does, and only
\* Exhausted gets the "not found" response
C11_EmptyStoreIsServerFault ==
    \A t \in Threads :
        /\ Dispensed(t, EmptyStore) => Response(t).code = 500
        /\ Dispensed(t, ResourceNotFound) => Response(t).code = 500
        /\ Dispensed(t, Exhausted) => Response(t).code = 404

\* C11, amended: EmptyStore from get_random_question gets the same "not found"
\* response as Exhausted, status 404 with the error's message as body; only
\* ResourceNotFound gets the server-fault response
C11_EmptyStoreIsNotFound ==
    \A t \in Threads :
        /\ Dispensed(t, EmptyStore) =>
               Response(t) = [code |-> 404,
                              body |-> [error |-> "No questions found in file"]]
        /\ Dispensed(t, Exhausted) =>
               Response(t) = [code |-> 404,
                              body |-> [error |-> "No more unused questions available"]]
        /\ Dispensed(t, ResourceNotFound) =>
               Response(t) = [code |-> 500,
                              body |-> [error |-> "Questions file not found"]]

\* get_random_question failed on a resource rewritten to hold no valid line
C11_Witness ==
    \E t \in Threads :
        /\ Dispensed(t, EmptyStore)
        /\ file.exists
        /\ FileRecords = <<>>
        /\ questions # <<>>

\* thread t takes the step of validate_answer that follows the reload check
Validates(t) == pc[t] = "lookup" /\ pc'[t] = "done"

\* C12: validate with an absent answer returns false, and raises nothing, when
\* the id is a key of the current mapping, and fails with UnknownQuestion when
\* it is not: the id is resolved before the answer is looked at
C12_AbsentAnswerAfterLookup ==
    [][\A t \in Threads :
          (Validates(t) /\ call[t].user_answer = None)
          => IF call[t].question_id \in DOMAIN id_map
             THEN result'[t] = Returned(FALSE)
             ELSE result'[t] = UnknownQuestion]_vars

\* a validate with an absent answer and an id the mapping does not hold failed
\* with UnknownQuestion
C12_Witness ==
    /\ seq
    /\ pc["t1"] = "done"
    /\ call["t1"].op = "validate_answer"
    /\ call["t1"].user_answer = None
    /\ call["t1"].question_id \notin DOMAIN id_map
    /\ result["t1"] = UnknownQuestion

Rome == <<"R","o","m","e">>

\* the positions of the records of the sequence that carry id i
PositionsOf(i) == {k \in DOMAIN questions : questions[k].id = i}

\* the answer of the last record of the sequence that carries id i
LastAnswerOf(i) ==
    questions[CHOOSE k \in PositionsOf(i) : \A j \in PositionsOf(i) : j <= k].answer

\* C13: records with the same trimmed question text carry the same id, and a
\* validate with that id grades against the answer of the last of them only:
\* with "x y|Paris" before " x y | Rome", "rome" is right and "PARIS!" is wrong
C13_LastLoadedWins ==
    /\ \A i, j \in DOMAIN questions :
           (questions[i].question = questions[j].question)
               <=> (questions[i].id = questions[j].id)
    /\ \A t \in Threads :
           (/\ seq
            /\ pc[t] = "done"
            /\ call[t].op = "validate_answer"
            /\ result[t].status = "ok"
            /\ call[t].user_answer # None)
           => LET i == call[t].question_id
                  given == call[t].user_answer
              IN  /\ result[t].value
                        = (normalize_answer(LastAnswerOf(i)) = normalize_answer(given))
                  /\ (Cardinality(PositionsOf(i)) > 1 /\ given = <<"r","o","m","e">>)
                        => result[t].value = TRUE
                  /\ (Cardinality(PositionsOf(i)) > 1
                          /\ given = <<"P","A","R","I","S","!">>)
                        => result[t].value = FALSE

\* the store holds "Paris" and then "Rome" for one question, and "rome" was
\* accepted for it
C13_Witness ==
    /\ seq
    /\ pc["t1"] = "done"
    /\ call["t1"].op = "validate_answer"
    /\ call["t1"].user_answer = <<"r","o","m","e">>
    /\ \E j, k \in DOMAIN questions :
           /\ j < k
           /\ questions[j].id = call["t1"].question_id
           /\ questions[k].id = call["t1"].question_id
           /\ questions[j].answer = Paris
           /\ questions[k].answer = Rome
    /\ result["t1"] = Returned(TRUE)

\* C14: an id is, at the moment it is inserted into the used set, a key of
\* the current mapping, also when another caller reloads the store between the
\* choice of the record and the insertion
C14_InsertedIdIsKey ==
    [][\A t \in Threads :
          (pc[t] = "add" /\ pc'[t] = "done")
          => chosen[t].id \in DOMAIN id_map]_vars

\* C15: reloads exclude each other: once no caller is inside a call, a
\* recorded timestamp equal to the timestamp of the resource implies that the
\* sequence and the mapping are the parse of the resource as it is now
C15_ReloadsAreExclusive ==
    (Quiet /\ file.exists /\ mtime = file.mtime)
        => /\ questions = FileRecords
           /\ id_map = BuildIdMap(FileRecords)

\* C16: a reloading call made while the resource holds no valid line fails
\* with EmptyStore and leaves the sequence, the mapping, the recorded timestamp
\* and the used set as they were, the timestamp still differing from the
\* resource's, so that the next call attempts the reload again; a call made
\* once the resource holds a valid line reloads it and does not fail so
C16_FailedReloadChangesNothing ==
    [][\A t \in Threads :
          (seq /\ Finishes(t) /\ call[t].op \in Reloading /\ file.exists)
          => IF FileRecords = <<>>
             THEN /\ result'[t] = EmptyStore
                  /\ UNCHANGED <<questions, id_map, mtime, used>>
                  /\ mtime' # file.mtime
             ELSE /\ result'[t] # EmptyStore
                  /\ questions' = FileRecords
                  /\ id_map' = BuildIdMap(FileRecords)
                  /\ mtime' = file.mtime]_vars

\* a question was dispensed, the resource was rewritten to hold no valid
\* line, and get_random_question then failed twice over with EmptyStore, the
\* store and the used set still those of before
C16_Witness ==
    /\ Len(run) = 3
    /\ run[1].status = "ok"
    /\ run[2] = EmptyStore
    /\ run[3] = EmptyStore
    /\ file.exists
    /\ FileRecords = <<>>
    /\ questions # <<>>
    /\ id_map = BuildIdMap(questions)
    /\ mtime # file.mtime
    /\ used = {run[1].value.id}

\* thread t takes the step of get_random_question that inserts and returns
Inserts(t) ==
    /\ pc[t] = "add"
    /\ pc'[t] = "done"
    /\ call[t].op = "get_random_question"
    /\ result'[t].status = "ok"
    /\ used' = used \cup {result'[t].value.id}

\* thread t calls clear_cache
Clears(t) ==
    /\ pc[t] \in {"idle", "done"}
    /\ call'[t].op = "clear_cache"
    /\ used' = {}

\* C17: the used set changes only in a successful get_random_question, which
\* adds the returned id, and in clear_cache, which empties it; validate_answer,
\* get_cache_size, load_questions, reloads and failing calls leave it alone,
\* and the questions dispensed since the last clear are pairwise distinct,
\* reloads in between or not
C17_UsedChangesOnlyByDispenseAndClear ==
    [][/\ used' # used => \E t \in Threads : Inserts(t) \/ Clears(t)
       /\ \A t \in Threads :
              (Finishes(t) /\ (call[t].op # "get_random_question"
                                  \/ result'[t].status # "ok"))
              => used' = used
       /\ \A i, j \in DOMAIN run' :
              (i < j /\ run'[i].status = "ok" /\ run'[j].status = "ok")
                  => run'[i].value.id # run'[j].value.id]_vars

\* a question was dispensed, the resource was rewritten still holding it and
\* was reloaded, and the next get_random_question dispensed another question
C17_Witness ==
    /\ seq
    /\ ~stable
    /\ Len(run) = 2
    /\ run[1].status = "ok"
    /\ run[2].status = "ok"
    /\ pc["t1"] = "done"
    /\ call["t1"].op = "get_random_question"
    /\ result["t1"] = run[2]
    /\ file.exists
    /\ mtime = file.mtime
    /\ mtime > 1
    /\ questions = FileRecords
    /\ run[1].value.id \in IdsOf(questions)
    /\ used = {run[1].value.id, run[2].value.id}

-----------------------------------------------------------------------------
(* Loading on its own: one caller reloads resources written line by line *)

\* the longest line tried exhaustively
MaxLineLen == 3

LineAlphabet == {"a", " ", "|"}

\* every line of at most MaxLineLen characters, the empty line included
ShortLines == UNION {[1..n -> LineAlphabet] : n \in 0..MaxLineLen}

\* lines put together into resources of two lines
PairLines ==
    { <<"a","|","a">>, <<"b","|","a">>, <<"a","|","|">>, <<" ","|","a">>,
      <<"a","a">> }

LoadFiles ==
    {<<l>> : l \in ShortLines} \cup {<<k, l>> : k, l \in PairLines}

LoadInit ==
    /\ InitManager
    /\ file.lines = <<LineParis, LineSeven>>
    /\ seq = TRUE

\* the caller invokes force_reload or load_questions
Reload == \E n \in {"force_reload", "load_questions"} : GetMtime("t1", Op(n))

\* the resource is written with lines of LoadFiles
WriteLines == \E c \in LoadFiles : WriteFile(c)

LoadNext ==
    \/ Reload
    \/ CheckMtime("t1")
    \/ Load("t1")
    \/ SetQuestions("t1")
    \/ SetIdMap("t1")
    \/ SetMtime("t1")
    \/ ReadAll("t1")
    \/ WriteLines

LoadSpec == LoadInit /\ [][LoadNext]_vars

\* the line holds the delimiter
HasDelimiter(raw) == \E p \in DOMAIN raw : raw[p] = "|"

\* the position of the first delimiter of a line that holds one
FirstDelimiter(raw) ==
    CHOOSE p \in DOMAIN raw :
        raw[p] = "|" /\ \A j \in 1..(p - 1) : raw[j] # "|"

\* the parts of the line before and after its first delimiter, trimmed
QuestionPart(raw) == Strip(SubSeq(raw, 1, FirstDelimiter(raw) - 1))
AnswerPart(raw) == Strip(SubSeq(raw, FirstDelimiter(raw) + 1, Len(raw)))

\* the lines the claim says are kept
IsKeptLine(raw) ==
    HasDelimiter(raw) /\ QuestionPart(raw) # <<>> /\ AnswerPart(raw) # <<>>

KeptLines == SelectSeq(file.lines, IsKeptLine)

\* C18: a load keeps exactly the lines that hold "|" and whose parts before
\* and after the first "|" are non-empty once trimmed, in file order, the
\* answer being everything after the first "|"; the other lines are skipped
\* without error, and the load fails with EmptyStore exactly when no line is
\* kept
C18_ParsingKeepsValidLines ==
    [][\A t \in Threads :
          (Finishes(t) /\ file.exists)
          => IF KeptLines = <<>>
             THEN result'[t] = EmptyStore
             ELSE /\ result'[t].status = "ok"
                  /\ questions' =
                        [i \in DOMAIN KeptLines |->
                            [id |-> compute_id(QuestionPart(KeptLines[i])),
                             question |-> QuestionPart(KeptLines[i]),
                             answer |-> AnswerPart(KeptLines[i])]]
                  /\ call[t].op = "load_questions" =>
                        result'[t].value =
                            [i \in DOMAIN KeptLines |->
                                <<QuestionPart(KeptLines[i]),
                                  AnswerPart(KeptLines[i])>>]]_vars

\* load_questions returned, in file order, the two records of a resource
\* whose second line has "|" as its answer
C18_Witness ==
    /\ pc["t1"] = "done"
    /\ call["t1"].op = "load_questions"
    /\ file.exists
    /\ file.lines = << <<"b","|","a">>, <<"a","|","|">> >>
    /\ result["t1"] = Returned(<< << <<"b">>, <<"a">> >>, << <<"a">>, <<"|">> >> >>)

-----------------------------------------------------------------------------
(* The normalization routine on its own *)

\* the longest input string tried exhaustively
MaxLen == 4

NormAlphabet == {"o", "n", "e", "O", "E_acute", "-", "_", " "}

Examples ==
    { None,
      <<"s","e","v","e","n","-","t","e","e","n">>,
      <<"T","w","e","l","v","e","-","Y","e","a","r">>,
      <<"C","a","f","e_acute","!">>,
      <<"c","a","f","e","comb_acute">>,
      <<" "," ","S","e","v","e","n"," "," ">>,
      <<"o","n","e","TAB","t","w","o",".">>,
      <<"P","a","r","i","s">>,
      <<"P","A","R","I","S","!">>,
      <<"p","a","r"," ","i","s">> }

NormInputs ==
    Examples \cup UNION {[1..n -> NormAlphabet] : n \in 0..MaxLen}

NormInit ==
    /\ InitStore
    /\ file.lines = <<LineParis, LineSeven>>
    /\ seq = TRUE
    /\ s_in \in NormInputs
    /\ s_out = <<>>

\* normalize(x)
Normalize ==
    /\ s_out = <<>>
    /\ s_out' = <<normalize_answer(s_in)>>
    /\ UNCHANGED <<file, clock, questions, id_map, mtime, used, pc, call, lmtime,
                   parsed, chosen, result, run, stable, exhausted, seq, s_in>>

\* normalize(normalize(x))
NormalizeAgain ==
    /\ Len(s_out) = 1
    /\ s_out' = Append(s_out, normalize_answer(s_out[1]))
    /\ UNCHANGED <<file, clock, questions, id_map, mtime, used, pc, call, lmtime,
                   parsed, chosen, result, run, stable, exhausted, seq, s_in>>

NormNext == Normalize \/ NormalizeAgain

NormSpec == NormInit /\ [][NormNext]_vars

-----------------------------------------------------------------------------
(* Claims about the normalization routine *)

NumberWordTokens == {NUMBER_WORDS[k][1] : k \in DOMAIN NUMBER_WORDS}

\* C8, as stated: normalize(normalize(x)) = normalize(x) for every input x
C8_IdempotentForAll ==
    Len(s_out) = 2 => s_out[2] = s_out[1]

\* C8, amended: normalize(normalize(x)) = normalize(x) for every input x
\* such that no whitespace-separated token of normalize(x) is a number word
C8_IdempotentWithoutNumberWord ==
    (Len(s_out) = 2 /\ Range(Split(s_out[1])) \cap NumberWordTokens = {})
        => s_out[2] = s_out[1]

\* an input the first pass changes, with no number word left in its result,
\* has been normalized twice
C8_Witness ==
    /\ Len(s_out) = 2
    /\ s_in # None
    /\ s_out[1] # s_in
    /\ s_out[1] # <<>>
    /\ Range(Split(s_out[1])) \cap NumberWordTokens = {}
    /\ s_out[2] = s_out[1]

SevenTeen == <<"s","e","v","e","n","-","t","e","e","n">>

\* C9, as stated: normalize("seven-teen") is the two tokens "seven teen"
C9_SevenTeenTwoTokens ==
    (s_in = SevenTeen /\ s_out # <<>>)
        => s_out[1] = <<"s","e","v","e","n"," ","t","e","e","n">>

\* C9, amended: normalize("seven-teen") is the single token "7teen": the number
\* word before the hyphen is replaced by its digit and the hyphen is deleted
\* without leaving a space; the result is not "17"
C9_SevenTeenIs7teen ==
    (s_in = SevenTeen /\ s_out # <<>>)
        => /\ s_out[1] = <<"7","t","e","e","n">>
           /\ Len(Split(s_out[1])) = 1
           /\ s_out[1] # <<"1","7">>

\* "seven-teen" has been normalized
C9_Witness ==
    /\ s_in = SevenTeen
    /\ s_out # <<>>
    /\ s_out[1] = <<"7","t","e","e","n">>

====
